---- MODULE Spec2Model ----
(***************************************************************************)
(* Model of generator.py: the table-to-schema inference of                 *)
(* parse_twitch_docs (type inference, array heuristic, indentation stack,  *)
(* required list, reference resolution, transport patch).                  *)
(*                                                                         *)
(* Text is a sequence of words: the form _normalize_ws leaves (single      *)
(* spaces between words, no leading or trailing space).  The name cell is  *)
(* the pair (indent, name): _leading_indent's count of leading spaces and  *)
(* the normalized name.  Python dicts live in a heap (a sequence of        *)
(* records, the index being the object's identity), because the frame      *)
(* stack holds references to dicts that later rows mutate or replace.      *)
(*                                                                         *)
(* Spec reads a document of several tables and resolves it; SpecNest reads *)
(* one table with arbitrary indentation; SpecCorrect applies               *)
(* _force_array_if_needed on its own, twice.                               *)
(***************************************************************************)
EXTENDS Integers, Sequences, FiniteSets, TLC

\* ------------------------------------------------------------------ bounds
MaxRows == 3
MaxTables == 2
MaxIndent == 2

\* ------------------------------------------------------------------ text
Absent == "~"
NoName == ""

RECURSIVE SeqFilterOut(_, _)
SeqFilterOut(s, drop) ==
    IF s = <<>> THEN <<>>
    ELSE IF Head(s) \in drop THEN SeqFilterOut(Tail(s), drop)
         ELSE <<Head(s)>> \o SeqFilterOut(Tail(s), drop)

Range(s) == {s[i] : i \in DOMAIN s}

\* str.lower() on one word
Lower(w) ==
    CASE w = "String" -> "string"
      [] w = "Object" -> "object"
      [] w = "Owner" -> "owner"
      [] w = "Transport" -> "transport"
      [] w = "Widget" -> "widget"
      [] w = "Array" -> "array"
      [] w = "An" -> "an"
      [] w = "(or NULL)" -> "(or null)"
      [] OTHER -> w

LowerText(t) == [i \in DOMAIN t |-> Lower(t[i])]

\* str.capitalize() on one word: first letter upper, the rest lower
Capitalize(w) ==
    CASE w = "owner" -> "Owner"
      [] w = "transport" -> "Transport"
      [] w = "object" -> "Object"
      [] w = "widget" -> "Widget"
      [] w = "subscription" -> "Subscription"
      [] w = "string" -> "String"
      [] OTHER -> w

\* the needles of map_type / _looks_nullable that occur in a (lower-case) word
Needles(w) ==
    CASE w = "string" -> {"string"}
      [] w = "boolean" -> {"bool", "boolean"}
      [] w = "integer" -> {"int", "integer"}
      [] w = "timestamp" -> {"timestamp"}
      [] w = "widget" -> {"id"}
      [] w = "(or null)" -> {"null", "(or null"}
      [] w = "null" -> {"null"}
      [] OTHER -> {}

TextHas(t, needles) == \E i \in DOMAIN t : Needles(t[i]) \cap needles # {}

IsParenthetical(w) == w \in {"(or null)"}

RECURSIVE ToPascalCase(_)
ToPascalCase(t) ==
    IF t = <<>> THEN "" ELSE Capitalize(Head(t)) \o ToPascalCase(Tail(t))

\* description cues: " null ", " is null", "null if"
DescLooksNull(d) ==
    \E i \in DOMAIN d :
        /\ d[i] = "null"
        /\ \/ (i > 1 /\ i < Len(d))
           \/ (i > 1 /\ d[i - 1] = "is")
           \/ (i < Len(d) /\ d[i + 1] = "if")

LooksNullable(type_text, desc_text) ==
    \/ TextHas(LowerText(type_text), {"null", "(or null"})
    \/ DescLooksNull(LowerText(desc_text))

\* ------------------------------------------------------------------ schema values
\* A dict built by map_type / _force_array_if_needed, as a value: the keys
\* "type", "$ref" (its target name), "allOf" (the list of parts), "nullable",
\* "description" and "items" (<<>> when absent, <<item>> otherwise).
Node(type, ref, allOf, nullable, hasDesc, desc, items) ==
    [type |-> type, ref |-> ref, allOf |-> allOf, nullable |-> nullable,
     hasDesc |-> hasDesc, desc |-> desc, items |-> items]

Typed(type) == Node(type, Absent, <<>>, FALSE, FALSE, <<>>, <<>>)
RefTo(name) == Node(Absent, name, <<>>, FALSE, FALSE, <<>>, <<>>)
ArrayOf(item) == Node("array", Absent, <<>>, FALSE, FALSE, <<>>, <<item>>)
Part(type, ref) == [type |-> type, ref |-> ref]

ARRAY_FIELD_NAME_HINTS ==
    {"choices", "outcomes", "fragments", "emotes", "top_contributions",
     "top_predictors", "boundaries", "terms_found", "shared_ban_channel_ids",
     "types", "chat_rules_cited", "badges", "format", "participants", "data",
     "terms"}

IsArrayText(t) ==
    \/ "[]" \in Range(t)
    \/ (t # <<>> /\ t[1] = "array")
    \/ \E i \in DOMAIN t : i < Len(t) /\ t[i] = "array" /\ t[i + 1] = "of"

\* the non-array branch of map_type on the base phrase
MapBase(t_base, nullable) ==
    LET prim ==
            IF TextHas(t_base, {"timestamp", "date", "datetime", "rfc3339"}) THEN "string"
            ELSE IF TextHas(t_base, {"string"}) THEN "string"
            ELSE IF TextHas(t_base, {"bool", "boolean"}) THEN "boolean"
            ELSE IF TextHas(t_base, {"int", "integer", "number", "float", "counter"})
                 THEN "integer"
            ELSE IF t_base = <<"object">> \/ t_base = <<>> THEN "object"
            ELSE IF TextHas(t_base, {"id"}) THEN "string"
            ELSE Absent
        ref_name == ToPascalCase(t_base)
    IN  IF prim # Absent THEN [Typed(prim) EXCEPT !.nullable = nullable]
        ELSE IF ref_name = "" \/ ref_name = "Object"
             THEN [Typed("object") EXCEPT !.nullable = nullable]
        ELSE IF nullable
             THEN Node(Absent, Absent, <<Part(Absent, ref_name)>>, TRUE, FALSE, <<>>, <<>>)
        ELSE RefTo(ref_name)

MapType(twitch_type_raw, desc_text) ==
    LET t_clean == LowerText(twitch_type_raw)
        t_base == SeqFilterOut(t_clean, {w \in Range(t_clean) : IsParenthetical(w)})
        nullable == LooksNullable(twitch_type_raw, desc_text)
    IN  IF IsArrayText(t_base)
        THEN LET inner == SeqFilterOut(t_base, {"array", "of", "[]"})
                 inner_mapping ==
                     IF inner # <<>> /\ inner # <<"object">>
                     THEN MapBase(inner, LooksNullable(inner, <<>>))
                     ELSE Typed("object")
             IN  [ArrayOf(inner_mapping) EXCEPT !.nullable = nullable]
        ELSE MapBase(t_base, nullable)

\* the corrector without its test that the schema is not yet an array
ForceArrayAlways(field_name, type_text, desc_text, schema) ==
    LET items == IF schema.ref # Absent THEN RefTo(schema.ref)
                 ELSE IF schema.type # Absent THEN schema ELSE Typed("object")
    IN  [ArrayOf(items) EXCEPT !.hasDesc = schema.hasDesc, !.desc = schema.desc]

ForceArrayIfNeeded(field_name, type_text, desc_text, schema) ==
    LET desc_l == LowerText(desc_text)
        type_l == LowerText(type_text)
        implied_array ==
            \/ field_name \in ARRAY_FIELD_NAME_HINTS
            \/ (Len(desc_l) >= 2 /\ desc_l[1] = "an" /\ desc_l[2] = "array")
            \/ \E i \in DOMAIN desc_l :
                   i + 2 <= Len(desc_l) /\ desc_l[i] = "an"
                   /\ desc_l[i + 1] = "array" /\ desc_l[i + 2] = "of"
            \/ IsArrayText(type_l)
    IN  IF field_name = NoName THEN schema
        ELSE IF implied_array /\ schema.type # "array"
        THEN LET items == IF schema.ref # Absent THEN RefTo(schema.ref)
                          ELSE IF schema.type # Absent THEN schema ELSE Typed("object")
             IN  [ArrayOf(items) EXCEPT !.hasDesc = schema.hasDesc, !.desc = schema.desc]
        ELSE schema

\* lines 273-282: the field's schema
FieldSchema(f_name, f_type, f_desc) ==
    LET mapped == [MapType(f_type, f_desc) EXCEPT !.hasDesc = TRUE, !.desc = f_desc]
        forced == ForceArrayIfNeeded(f_name, f_type, f_desc, mapped)
    IN  IF LooksNullable(f_type, f_desc)
        THEN IF forced.ref # Absent
             THEN Node(Absent, Absent, <<Part(Absent, forced.ref)>>, TRUE, TRUE, f_desc, <<>>)
             ELSE [forced EXCEPT !.nullable = TRUE]
        ELSE forced

\* ------------------------------------------------------------------ heap
\* A dict on the heap: the value's keys, "items" as the identity of the item
\* dict (0 when absent), and the keys of an object schema: "properties" (a
\* map from field name to the identity of its schema, 0 for no such key) and
\* "required".
FieldNames == {"id", "owner", "transport"}
NoProps == [n \in FieldNames |-> 0]

HeapNode(v, items) ==
    [type |-> v.type, ref |-> v.ref, allOf |-> v.allOf, nullable |-> v.nullable,
     hasDesc |-> v.hasDesc, desc |-> v.desc, items |-> items,
     hasProps |-> FALSE, props |-> NoProps, hasReq |-> FALSE, required |-> <<>>]

\* {"type": "object"}
BareObject == HeapNode(Typed("object"), 0)
\* {"type": "object", "properties": {}}
EmptyRoot == [BareObject EXCEPT !.hasProps = TRUE]

\* the heap after the dicts of value v are created; v's own dict is the last
RECURSIVE Alloc(_, _)
Alloc(h, v) ==
    IF v.items = <<>> THEN Append(h, HeapNode(v, 0))
    ELSE LET h1 == Alloc(h, v.items[1]) IN Append(h1, HeapNode(v, Len(h1)))

\* _ensure_object_schema with the fallback item dict built but never stored
EnsureObjectDetached(h, p) ==
    IF h[p].type = "array"
    THEN LET it1 == h[p].items
             h2 == IF h[it1].type # "object" /\ ~h[it1].hasProps
                   THEN Append(h, BareObject) ELSE h
             it2 == IF h[it1].type # "object" /\ ~h[it1].hasProps THEN Len(h2) ELSE it1
         IN  [heap |-> [h2 EXCEPT ![it2].hasProps = TRUE], obj |-> it2]
    ELSE [heap |-> [h EXCEPT ![p].type = IF @ = Absent THEN "object" ELSE @,
                             ![p].hasProps = TRUE],
          obj |-> p]

\* _ensure_object_schema: the heap after the call and the dict returned
EnsureObjectSchema(h, p) ==
    IF h[p].type = "array"
    THEN LET h1 == IF h[p].items = 0
                   THEN [Append(h, BareObject) EXCEPT ![p].items = Len(h) + 1]
                   ELSE h
             it1 == h1[p].items
             h2 == IF h1[it1].type # "object" /\ ~h1[it1].hasProps
                   THEN [Append(h1, BareObject) EXCEPT ![p].items = Len(h1) + 1]
                   ELSE h1
             it2 == h2[p].items
             h3 == [h2 EXCEPT ![it2].type = IF @ = Absent THEN "object" ELSE @,
                              ![it2].hasProps = TRUE]
         IN  [heap |-> h3, obj |-> it2]
    ELSE [heap |-> [h EXCEPT ![p].type = IF @ = Absent THEN "object" ELSE @,
                             ![p].hasProps = TRUE],
          obj |-> p]

\* ------------------------------------------------------------------ state
VARIABLES
    pc,               \* "headers": between tables; "rows": inside a table; "done"
    heap,             \* the dicts
    schemas,          \* component name -> identity of its root schema (0: no key)
    component_name,
    root_schema,
    stack,            \* frames (indent, current_object_schema, last_property_name)
    required_fields,
    nrows, ntables,   \* rows and tables read so far
    rows,             \* history: the rows inserted from this table, and where
    built,            \* history: the heap before fix_schema ran
    cor               \* the corrector on its own: its input and its results

vars == <<pc, heap, schemas, component_name, root_schema, stack, required_fields,
          nrows, ntables, rows, built, cor>>

Frame(indent, obj, last) == [indent |-> indent, obj |-> obj, last |-> last]
Top(s) == s[Len(s)]
NoCor == [phase |-> "off"]

DocTitles == {<<"Subscription">>, <<"Transport">>}
Titles == DocTitles \cup {<<"Widget">>}
SkipTitles == {<<"Contents">>, <<"Overview">>, <<"Request", "fields">>, <<"Response", "fields">>}
ComponentNames == {ToPascalCase(t) : t \in Titles}

\* the pop loop never entered: no finished level is closed
PopNoFrame(s, indent) == s

\* lines 256-258
RECURSIVE PopFrames(_, _)
PopFrames(s, indent) ==
    IF s # <<>> /\ indent < Top(s).indent THEN PopFrames(SubSeq(s, 1, Len(s) - 1), indent)
    ELSE s

\* the comprehension with a seen set that is never added to
DedupNone(fields, seen) == fields

\* lines 295-297
RECURSIVE Dedup(_, _)
Dedup(fields, seen) ==
    IF fields = <<>> THEN <<>>
    ELSE IF Head(fields) \in seen THEN Dedup(Tail(fields), seen)
         ELSE <<Head(fields)>> \o Dedup(Tail(fields), seen \cup {Head(fields)})

\* ------------------------------------------------------------------ resolver
Kids(h, i) == ({h[i].items} \cup {h[i].props[n] : n \in FieldNames}) \ {0}

\* the dicts of the tree under dict i
RECURSIVE Reach(_, _)
Reach(h, i) == {i} \cup UNION {Reach(h, k) : k \in Kids(h, i)}

Dangling(ref, valid_components) == ref # Absent /\ ref \notin valid_components

\* lines 306-321: what fix_schema makes of one dict before it descends
FixDict(node, valid_components) ==
    IF Dangling(node.ref, valid_components)
    THEN [BareObject EXCEPT !.hasDesc = TRUE,
                            !.desc = IF node.hasDesc THEN node.desc ELSE <<>>]
    ELSE [node EXCEPT !.allOf =
              [k \in DOMAIN node.allOf |->
                  IF Dangling(node.allOf[k].ref, valid_components)
                  THEN Part("object", Absent) ELSE node.allOf[k]]]

\* fix_schema descending through "properties" only
RECURSIVE VisitedNoItems(_, _, _)
VisitedNoItems(h, i, valid_components) ==
    IF Dangling(h[i].ref, valid_components) THEN {i}
    ELSE {i} \cup UNION {VisitedNoItems(h, k, valid_components) :
                             k \in Kids(h, i) \ {h[i].items}}

\* the dicts fix_schema visits from dict i: it does not descend into a dict
\* it replaces
RECURSIVE Visited(_, _, _)
Visited(h, i, valid_components) ==
    IF Dangling(h[i].ref, valid_components) THEN {i}
    ELSE {i} \cup UNION {Visited(h, k, valid_components) : k \in Kids(h, i)}

\* line 329: fix_schema over every component.  The dict that replaces a
\* dangling reference takes the replaced dict's place in its parent.
FixSchemas(h, roots, valid_components) ==
    LET seen == UNION {Visited(h, r, valid_components) : r \in roots}
    IN  [i \in DOMAIN h |-> IF i \in seen THEN FixDict(h[i], valid_components) ELSE h[i]]

\* ------------------------------------------------------------------ actions
Init ==
    /\ pc = "headers"
    /\ heap = <<>>
    /\ schemas = [c \in ComponentNames |-> 0]
    /\ component_name = ""
    /\ root_schema = 0
    /\ stack = <<>>
    /\ required_fields = <<>>
    /\ nrows = 0
    /\ ntables = 0
    /\ rows = <<>>
    /\ built = <<>>
    /\ cor = NoCor

\* lines 197-212, 216-221: a heading that yields no table
SkipHeader(title) ==
    /\ pc = "headers"
    /\ ntables < MaxTables
    /\ title \in SkipTitles \/ ToPascalCase(title) = ""
    /\ ntables' = ntables + 1
    /\ UNCHANGED <<pc, heap, schemas, component_name, root_schema, stack,
                   required_fields, nrows, rows, built, cor>>

\* lines 197-233: a heading with its table
StartTable(title) ==
    /\ pc = "headers"
    /\ ntables < MaxTables
    /\ title \notin SkipTitles
    /\ ToPascalCase(title) # ""
    /\ ntables' = ntables + 1
    /\ component_name' = ToPascalCase(title)
    /\ heap' = Append(heap, EmptyRoot)
    /\ root_schema' = Len(heap) + 1
    /\ required_fields' = <<>>
    /\ stack' = <<Frame(0, Len(heap) + 1, NoName)>>
    /\ rows' = <<>>
    /\ pc' = "rows"
    /\ UNCHANGED <<schemas, nrows, built, cor>>

\* lines 236-238, 245-246: a row with too few cells, no name or a separator
SkipRow ==
    /\ pc = "rows"
    /\ nrows < MaxRows
    /\ nrows' = nrows + 1
    /\ UNCHANGED <<pc, heap, schemas, component_name, root_schema, stack,
                   required_fields, ntables, rows, built, cor>>

\* lines 240-291: one row
ProcessRow(indent, f_name, f_type, f_desc, is_required) ==
    /\ pc = "rows"
    /\ nrows < MaxRows
    /\ f_name # NoName
    /\ LET popped == PopFrames(stack, indent)
           s2 == IF popped = <<>> THEN <<Frame(0, root_schema, NoName)>> ELSE popped
           prev == Top(s2)
           nest == /\ indent > prev.indent
                   /\ prev.last # NoName
                   /\ heap[prev.obj].props[prev.last] # 0
           ens == EnsureObjectSchema(heap, heap[prev.obj].props[prev.last])
           h1 == IF nest THEN ens.heap ELSE heap
           s3 == IF nest THEN Append(s2, Frame(indent, ens.obj, NoName)) ELSE s2
           current_obj == Top(s3).obj
           h2 == Alloc(h1, FieldSchema(f_name, f_type, f_desc))
       IN  /\ heap' = [h2 EXCEPT ![current_obj].hasProps = TRUE,
                                 ![current_obj].props[f_name] = Len(h2)]
           /\ stack' = [s3 EXCEPT ![Len(s3)].last = f_name]
           /\ rows' = Append(rows,
                  [indent |-> indent, name |-> f_name, owner |-> current_obj,
                   field |-> Len(h2),
                   fresh |-> h1[current_obj].props[f_name] = 0])
    /\ required_fields' =
           IF is_required THEN Append(required_fields, f_name) ELSE required_fields
    /\ nrows' = nrows + 1
    /\ UNCHANGED <<pc, schemas, component_name, root_schema, ntables, built, cor>>

\* lines 293-298: the table's rows are read
EndTable ==
    /\ pc = "rows"
    /\ IF \E n \in FieldNames : heap[root_schema].props[n] # 0
       THEN /\ heap' = IF required_fields # <<>>
                       THEN [heap EXCEPT ![root_schema].hasReq = TRUE,
                                         ![root_schema].required = Dedup(required_fields, {})]
                       ELSE heap
            /\ schemas' = [schemas EXCEPT ![component_name] = root_schema]
       ELSE UNCHANGED <<heap, schemas>>
    /\ pc' = "headers"
    /\ UNCHANGED <<component_name, root_schema, stack, required_fields, nrows, ntables,
                   rows, built, cor>>

Roots(sch) == {sch[c] : c \in ComponentNames} \ {0}
Registered(sch) == {c \in ComponentNames : sch[c] # 0}

TransportDetails == <<"Transport", "details.">>

\* lines 331-336
Patch(h, sch) ==
    IF sch["Subscription"] # 0 /\ sch["Transport"] # 0
       /\ h[sch["Subscription"]].props["transport"] = 0
    THEN LET h1 == Append(h, HeapNode([RefTo("Transport") EXCEPT
                                  !.hasDesc = TRUE, !.desc = TransportDetails], 0))
         IN  [h1 EXCEPT ![sch["Subscription"]].hasProps = TRUE,
                        ![sch["Subscription"]].props["transport"] = Len(h1)]
    ELSE h

\* lines 300-338: the headings are read; resolve, patch and return
Finish ==
    /\ pc = "headers"
    /\ built' = heap
    /\ heap' = Patch(FixSchemas(heap, Roots(schemas), Registered(schemas)), schemas)
    /\ pc' = "done"
    /\ UNCHANGED <<schemas, component_name, root_schema, stack, required_fields, nrows,
                   ntables, rows, cor>>

\* ------------------------------------------------------------------ inputs
Indents == 0 .. MaxIndent
Details == <<"details">>

\* rows of the document specification: (name, type, required)
DocFields ==
    {<<"id", <<"String">>, TRUE>>,
     <<"owner", <<"Owner">>, FALSE>>,
     <<"owner", <<"Owner", "(or null)">>, FALSE>>,
     <<"owner", <<"array", "of", "Owner">>, FALSE>>,
     <<"owner", <<"Transport">>, FALSE>>}
\* rows of the single-table specification: (name, type, required)
NestFields ==
    {<<"id", <<"String">>, TRUE>>,
     <<"id", <<"String">>, FALSE>>,
     <<"owner", <<"String">>, TRUE>>,
     <<"owner", <<"Owner", "[]">>, FALSE>>}

Next ==
    \/ SkipHeader(<<"Overview">>)
    \/ \E t \in DocTitles : StartTable(t)
    \/ SkipRow
    \/ \E i \in {0, 1}, f \in DocFields : ProcessRow(i, f[1], f[2], Details, f[3])
    \/ EndTable
    \/ Finish

Spec == Init /\ [][Next]_vars

NextNest ==
    \/ ntables = 0 /\ StartTable(<<"Widget">>)
    \/ SkipRow
    \/ \E i \in Indents, f \in NestFields : ProcessRow(i, f[1], f[2], Details, f[3])
    \/ EndTable
    \/ Finish

SpecNest == Init /\ [][NextNest]_vars

\* ------------------------------------------------------------------ the corrector alone
CorNames == {"id", "choices"}
CorTypes == {<<"String">>, <<"Owner">>, <<"Owner", "(or null)">>, <<"Owner", "[]">>}
CorDescs == {<<>>, <<"An", "array", "of", "owners">>, <<"id", "is", "null", "if", "unset">>}

\* the nodes handed to the corrector: what lines 273-274 build, and dicts of
\* other shapes (no type, an array without description, an array of arrays)
CorNodes(t, d) ==
    {[MapType(t, d) EXCEPT !.hasDesc = TRUE, !.desc = d],
     MapType(t, d),
     Node(Absent, Absent, <<>>, FALSE, TRUE, d, <<>>),
     ArrayOf(MapType(t, d)),
     ArrayOf(ArrayOf(Typed("string")))}

InitCorrect ==
    /\ pc = "headers"
    /\ heap = <<>>
    /\ schemas = [c \in ComponentNames |-> 0]
    /\ component_name = ""
    /\ root_schema = 0
    /\ stack = <<>>
    /\ required_fields = <<>>
    /\ nrows = 0
    /\ ntables = 0
    /\ rows = <<>>
    /\ built = <<>>
    /\ \E n \in CorNames, t \in CorTypes, d \in CorDescs :
           \E node \in CorNodes(t, d) :
               cor = [phase |-> "in", name |-> n, type |-> t, desc |-> d,
                      node |-> node, once |-> node, twice |-> node]

Correct ==
    /\ cor.phase = "in"
    /\ cor' = [cor EXCEPT !.phase = "once",
                          !.once = ForceArrayIfNeeded(cor.name, cor.type, cor.desc, cor.node)]
    /\ UNCHANGED <<pc, heap, schemas, component_name, root_schema, stack,
                   required_fields, nrows, ntables, rows, built>>

CorrectAgain ==
    /\ cor.phase = "once"
    /\ cor' = [cor EXCEPT !.phase = "twice",
                          !.twice = ForceArrayIfNeeded(cor.name, cor.type, cor.desc, cor.once)]
    /\ UNCHANGED <<pc, heap, schemas, component_name, root_schema, stack,
                   required_fields, nrows, ntables, rows, built>>

NextCorrect == Correct \/ CorrectAgain

SpecCorrect == InitCorrect /\ [][NextCorrect]_vars

\* ------------------------------------------------------------------ claims
Max(S) == CHOOSE m \in S : \A x \in S : x <= m
Min(S) == CHOOSE m \in S : \A x \in S : m <= x

\* the names a dict refers to: its "$ref" and the "$ref" of its allOf parts
NodeRefs(n) == ({n.ref} \cup {n.allOf[k].ref : k \in DOMAIN n.allOf}) \ {Absent}

\* the dict fields nest under: the items of an array, the dict itself otherwise
Container(h, f) == IF h[f].type = "array" THEN h[f].items ELSE f
Keys(h, o) == IF o = 0 THEN {} ELSE {n \in FieldNames : h[o].props[n] # 0}

\* the dict found from object o along a chain of field names (0: none)
RECURSIVE Lookup(_, _, _)
Lookup(h, o, path) ==
    IF o = 0 \/ path = <<>> THEN 0
    ELSE LET f == h[o].props[Head(path)]
         IN  IF Len(path) = 1 \/ f = 0 THEN f
             ELSE Lookup(h, Container(h, f), Tail(path))

\* nesting levels below object o: 0 when no field of o has fields of its own
RECURSIVE Depth(_, _)
Depth(h, o) ==
    LET below == {Container(h, h[o].props[n]) : n \in Keys(h, o)}
        deep == {c \in below : Keys(h, c) # {}}
    IN  IF deep = {} THEN 0 ELSE 1 + Max({Depth(h, c) : c \in deep})

\* the first row at indent 0, each increase one step deeper than the row before
ValidNesting(rs) ==
    /\ rs # <<>>
    /\ rs[1].indent = 0
    /\ \A k \in 2 .. Len(rs) : rs[k].indent <= rs[k - 1].indent + 1

\* the chain of parent fields the indentation gives row k: its parent is the
\* nearest earlier row one step less indented
RECURSIVE ParentChain(_, _)
ParentChain(rs, k) ==
    IF rs[k].indent = 0 THEN <<rs[k].name>>
    ELSE LET j == Max({i \in 1 .. k - 1 : rs[i].indent = rs[k].indent - 1})
         IN  Append(ParentChain(rs, j), rs[k].name)

Building == pc \in {"rows", "headers"} /\ root_schema # 0
TableRead == pc = "headers" /\ root_schema # 0

\* C1: after fix_schema over every component and the transport patch, no dict
\* of the output mapping refers (by "$ref", directly, as array item, under
\* nested properties or inside allOf) to a name that is not a key of it.
C1_NoDanglingReference ==
    pc = "done" =>
        \A r \in Roots(schemas) : \A i \in Reach(heap, r) :
            NodeRefs(heap[i]) \subseteq Registered(schemas)

\* C1 witness: a document where Subscription refers to Transport, whose table
\* comes later, holds a dangling reference too, and got the transport patch.
C1_Witness ==
    /\ pc = "done"
    /\ schemas["Subscription"] # 0
    /\ schemas["Transport"] > schemas["Subscription"]
    /\ \E i \in Reach(built, schemas["Subscription"]) : built[i].ref = "Transport"
    /\ \E i \in Reach(built, schemas["Subscription"]) :
           ~(NodeRefs(built[i]) \subseteq Registered(schemas))
    /\ heap[schemas["Subscription"]].props["transport"] # 0

\* C2: every name in a schema node's required list is a key of that node's
\* own properties.
C2_RequiredNamesAreOwnProperties ==
    TableRead =>
        \A i \in Reach(heap, root_schema) :
            \A k \in DOMAIN heap[i].required :
                heap[i].props[heap[i].required[k]] # 0

\* C3 as stated: for validly nested rows the tree's depth is the maximum
\* indentation and every inserted field is found along its chain of parents.
C3_DepthAndReachability ==
    (Building /\ ValidNesting(rows)) =>
        /\ Depth(heap, root_schema) = Max({rows[k].indent : k \in DOMAIN rows})
        /\ \A k \in DOMAIN rows : Lookup(heap, root_schema, ParentChain(rows, k)) # 0

\* C3 amended: the same, for validly nested rows none of which repeats a name
\* already present in the node it is inserted into; each inserted field is the
\* dict found along its chain of parents.
C3_DepthAndReachabilityNoOverwrite ==
    (Building /\ ValidNesting(rows) /\ \A k \in DOMAIN rows : rows[k].fresh) =>
        /\ Depth(heap, root_schema) = Max({rows[k].indent : k \in DOMAIN rows})
        /\ \A k \in DOMAIN rows :
               Lookup(heap, root_schema, ParentChain(rows, k)) = rows[k].field

\* C3 witness: three validly nested rows reaching depth 2, a field under the
\* items of an array parent among them.
C3_Witness ==
    /\ Building
    /\ Len(rows) = 3
    /\ ValidNesting(rows)
    /\ \A k \in DOMAIN rows : rows[k].fresh
    /\ rows[3].indent = 2
    /\ \E k \in DOMAIN rows : rows[k].owner # root_schema /\ heap[rows[k].owner].hasDesc = FALSE

\* C4: a reference to an unregistered component becomes a bare Object that
\* keeps the original node's description, as a direct property type, as an
\* array's item type and as a nullable-wrapped reference (no allOf left).
C4_DanglingBecomesBareObject ==
    pc = "done" =>
        \A r \in Roots(schemas) : \A i \in Visited(built, r, Registered(schemas)) :
            LET old == built[i]
                new == heap[i]
                bare == new.type = "object" /\ new.ref = Absent /\ new.allOf = <<>>
                kept == new.hasDesc = old.hasDesc /\ new.desc = old.desc
            IN  /\ (Dangling(old.ref, Registered(schemas)) /\ old.hasDesc) => bare /\ kept
                /\ (old.type = "array" /\ old.items # 0
                    /\ Dangling(built[old.items].ref, Registered(schemas))) =>
                       /\ kept
                       /\ heap[new.items].type = "object"
                       /\ heap[new.items].ref = Absent
                /\ (\E k \in DOMAIN old.allOf :
                        Dangling(old.allOf[k].ref, Registered(schemas))) => bare /\ kept

\* C5: when the corrector triggers on a reference, plain or nullable-wrapped,
\* the result is an array whose item is a reference to the same name.
C5_CorrectedReferenceKeepsTarget ==
    (cor.phase = "once" /\ cor.once # cor.node /\ NodeRefs(cor.node) # {}) =>
        /\ cor.once.type = "array"
        /\ cor.once.items # <<>>
        /\ {cor.once.items[1].ref} = NodeRefs(cor.node)

\* C6: the root's required list has no duplicate and lists the names in the
\* order of their first required row; no required row, no required list.
C6_RequiredDedupFirstSeen ==
    TableRead =>
        LET req == heap[root_schema].required
            First(n) == Min({k \in DOMAIN required_fields : required_fields[k] = n})
        IN  IF required_fields = <<>> THEN ~heap[root_schema].hasReq /\ req = <<>>
            ELSE /\ heap[root_schema].hasReq
                 /\ Range(req) = Range(required_fields)
                 /\ \A a, b \in DOMAIN req : a < b =>
                        req[a] # req[b] /\ First(req[a]) < First(req[b])

\* C6 witness: a table read whose rows marked one name required twice, with
\* another required name between.
C6_Witness ==
    /\ TableRead
    /\ Len(required_fields) = 3
    /\ required_fields[1] = required_fields[3]
    /\ required_fields[1] # required_fields[2]

\* C7: correcting a corrected node changes nothing, and a node that is
\* already an array is returned as it is.
C7_CorrectorIdempotent ==
    /\ cor.phase = "twice" => cor.twice = cor.once
    /\ (cor.phase \in {"once", "twice"} /\ cor.node.type = "array") => cor.once = cor.node

\* C7 witness: the corrector turned its input into an array and was applied
\* again.
C7_Witness ==
    /\ cor.phase = "twice"
    /\ cor.once # cor.node
    /\ cor.once.type = "array"

\* C8: while rows are processed the stack is not empty, its bottom frame has
\* indent 0 and owns the root schema, indents do not decrease upwards, and
\* every upper frame owns a dict reachable from the root schema.
C8_StackInvariant ==
    pc = "rows" =>
        /\ stack # <<>>
        /\ stack[1].indent = 0
        /\ stack[1].obj = root_schema
        /\ \A k \in 1 .. Len(stack) - 1 : stack[k].indent <= stack[k + 1].indent
        /\ \A k \in 2 .. Len(stack) : stack[k].obj \in Reach(heap, root_schema)

\* C8 witness: a skipped row, a first row indented with no parent, and a frame
\* pushed on an object that replaced an array's reference item.
C8_Witness ==
    /\ pc = "rows"
    /\ nrows > Len(rows)
    /\ rows # <<>>
    /\ rows[1].indent > 0
    /\ Len(stack) >= 2
    /\ Top(stack).obj # rows[1].field

\* C9: two consecutive processed rows of the same indentation are inserted
\* into the same schema node.
C9_SameIndentSameNode ==
    \A k \in 2 .. Len(rows) :
        rows[k].indent = rows[k - 1].indent => rows[k].owner = rows[k - 1].owner

\* C10: every field found along a chain of field names before resolution is
\* found along the same chain after it.
C10_ResolutionKeepsFields ==
    pc = "done" =>
        \A r \in Roots(schemas) :
            \A a, b \in {"id", "owner"} :
                /\ Lookup(built, r, <<a>>) # 0 => Lookup(heap, r, <<a>>) # 0
                /\ Lookup(built, r, <<a, b>>) # 0 => Lookup(heap, r, <<a, b>>) # 0
====
